---- MODULE Spec2Model ----
(***************************************************************************)
(* Model of src/transformers/data/metrics/__init__.py: the metric bundles  *)
(* and the task dispatchers glue_compute_metrics / xnli_compute_metrics.   *)
(*                                                                         *)
(* Numbers.  A metric value is an exact fraction <<n, d>> in lowest terms  *)
(* with d > 0; <<0, 0>> is NaN (numpy's mean of an empty array, a          *)
(* correlation of a constant vector).  A correlation n / sqrt(r) whose     *)
(* radicand is no perfect square is kept as <<n, r, 2>>.  Python's int 1   *)
(* and float 1.0 are the same number <<1, 1>>.                             *)
(*                                                                         *)
(* Arrays are sequences; Python's label index i is position i + 1.         *)
(* Scores (probabilities) are integer levels: every metric that reads      *)
(* them (ROC AUC, average precision) depends on their order only.          *)
(***************************************************************************)
EXTENDS Integers, Sequences, FiniteSets, TLC

\* ------------------------------------------------------------------ bounds
MaxLen == 3      \* longest prediction / label vector handed to a dispatcher
MaxCells == 4    \* most cells N * L of a multi-label matrix

\* -------------------------------------------------------------- arithmetic
Abs(x) == IF x < 0 THEN -x ELSE x

RECURSIVE GCD(_, _)
GCD(a, b) == IF b = 0 THEN a ELSE GCD(b, a % b)

NaN == <<0, 0>>
IsNaN(x) == x[2] = 0

\* float division n / d of two finite numbers, d # 0
Rat(n, d) ==
    LET g == GCD(Abs(n), Abs(d))
        s == IF d < 0 THEN -1 ELSE 1
    IN  <<(s * n) \div g, (s * d) \div g>>

Zero == Rat(0, 1)
One == Rat(1, 1)

RAdd(x, y) == IF IsNaN(x) \/ IsNaN(y) THEN NaN
              ELSE Rat(x[1] * y[2] + y[1] * x[2], x[2] * y[2])
RMul(x, y) == IF IsNaN(x) \/ IsNaN(y) THEN NaN
              ELSE Rat(x[1] * y[1], x[2] * y[2])
\* x / k for an integer k # 0
RDivInt(x, k) == IF IsNaN(x) THEN NaN ELSE Rat(x[1], x[2] * k)
\* x / y for y # 0
RDiv(x, y) == IF IsNaN(x) \/ IsNaN(y) THEN NaN
              ELSE Rat(x[1] * y[2], x[2] * y[1])

RECURSIVE SumSeq(_)
SumSeq(s) == IF s = <<>> THEN 0 ELSE s[1] + SumSeq(Tail(s))

\* Python's sum(list) of fractions, starting from int 0
RECURSIVE RSum(_)
RSum(s) == IF s = <<>> THEN Zero ELSE RAdd(s[1], RSum(Tail(s)))

\* the integer square root of a perfect square, -1 otherwise
ISqrt(r) == IF \E k \in 0..r : k * k = r
            THEN CHOOSE k \in 0..r : k * k = r ELSE -1

\* n / sqrt(r), r > 0
Surd(n, r) == IF ISqrt(r) >= 0 THEN Rat(n, ISqrt(r)) ELSE <<n, r, 2>>

\* ------------------------------------------------------- call outcomes
Ok(v) == [err |-> "none", val |-> v]
Raise(e, a) == [err |-> e, val |-> a]

\* Runs the calls (a sequence of [name, r]) in order up to the first that
\* raises: the error (or "none"), and the names of the calls made.
FirstErr(calls) ==
    IF \E i \in 1..Len(calls) : calls[i].r.err # "none"
    THEN CHOOSE i \in 1..Len(calls) :
            /\ calls[i].r.err # "none"
            /\ \A k \in 1..(i - 1) : calls[k].r.err = "none"
    ELSE 0

Made(calls) ==
    LET e == FirstErr(calls)
        n == IF e = 0 THEN Len(calls) ELSE e
    IN  [i \in 1..n |-> calls[i].name]

\* ------------------------------------------------------------ numpy
\* (preds == labels).mean() on two arrays of one length: the element-wise
\* equality as 0/1, summed and divided by the length; NaN on empty arrays.
\* mutant: the comparison inverted, (preds != labels)
ElementwiseEq_NotEqual(preds, labels) ==
    [i \in 1..Len(preds) |-> IF preds[i] # labels[i] THEN 1 ELSE 0]

ElementwiseEq(preds, labels) ==
    [i \in 1..Len(preds) |-> IF preds[i] = labels[i] THEN 1 ELSE 0]

\* mutant: the sum divided by one more than the length
Mean_OffByOne(a) == IF Len(a) = 0 THEN NaN ELSE Rat(SumSeq(a), Len(a) + 1)

Mean(a) == IF Len(a) = 0 THEN NaN ELSE Rat(SumSeq(a), Len(a))

simple_accuracy(preds, labels) == Mean(ElementwiseEq(preds, labels))

\* ------------------------------------------- sklearn.metrics, scipy.stats
\* The library functions the module imports, by their documented results on
\* integer class vectors.  On empty vectors the result depends on the
\* library version: `lib` is "raise" or "zero" (0.0 with a warning).
LibErr == Raise("LibraryError", <<>>)

Indices(y) == 1..Len(y)
ClassSet(y_true, y_pred) ==
    {y_true[i] : i \in Indices(y_true)} \cup {y_pred[i] : i \in Indices(y_pred)}

RECURSIVE SortedSeq(_)
SortedSeq(S) ==
    IF S = {} THEN <<>>
    ELSE LET m == CHOOSE x \in S : \A y \in S : x <= y
         IN  <<m>> \o SortedSeq(S \ {m})

TPof(y_true, y_pred, c) ==
    Cardinality({i \in Indices(y_true) : y_true[i] = c /\ y_pred[i] = c})
FPof(y_true, y_pred, c) ==
    Cardinality({i \in Indices(y_true) : y_true[i] # c /\ y_pred[i] = c})
FNof(y_true, y_pred, c) ==
    Cardinality({i \in Indices(y_true) : y_true[i] = c /\ y_pred[i] # c})

\* zero_division="warn": an undefined ratio is 0.0
SafeRatio(n, d) == IF d = 0 THEN Zero ELSE Rat(n, d)

PrecisionOf(y_true, y_pred, c) ==
    SafeRatio(TPof(y_true, y_pred, c),
              TPof(y_true, y_pred, c) + FPof(y_true, y_pred, c))
RecallOf(y_true, y_pred, c) ==
    SafeRatio(TPof(y_true, y_pred, c),
              TPof(y_true, y_pred, c) + FNof(y_true, y_pred, c))
F1Of(y_true, y_pred, c) ==
    SafeRatio(2 * TPof(y_true, y_pred, c),
              2 * TPof(y_true, y_pred, c) + FPof(y_true, y_pred, c)
                + FNof(y_true, y_pred, c))

\* average="binary" scores the class pos_label = 1; average="macro" is the
\* unweighted mean over the classes present in y_true or y_pred.
\* perClass maps a class to its score.
Averaged(perClass, y_true, y_pred, average, lib) ==
    IF Len(y_true) = 0
    THEN (IF lib = "raise" THEN LibErr ELSE Ok(Zero))
    ELSE IF average = "binary" THEN Ok(perClass[1])
    ELSE LET cs == SortedSeq(ClassSet(y_true, y_pred))
         IN  Ok(RDivInt(RSum([k \in 1..Len(cs) |-> perClass[cs[k]]]), Len(cs)))

ScoredClasses(y_true, y_pred) == ClassSet(y_true, y_pred) \cup {1}

precision_score(y_true, y_pred, average, lib) ==
    Averaged([c \in ScoredClasses(y_true, y_pred) |-> PrecisionOf(y_true, y_pred, c)],
             y_true, y_pred, average, lib)
recall_score(y_true, y_pred, average, lib) ==
    Averaged([c \in ScoredClasses(y_true, y_pred) |-> RecallOf(y_true, y_pred, c)],
             y_true, y_pred, average, lib)
f1_score(y_true, y_pred, average, lib) ==
    Averaged([c \in ScoredClasses(y_true, y_pred) |-> F1Of(y_true, y_pred, c)],
             y_true, y_pred, average, lib)

\* matthews_corrcoef: from the confusion matrix C over the classes present,
\* cov_ytyp / sqrt(cov_ytyt * cov_ypyp), and 0.0 when that product is 0.
CountOf(y, c) == Cardinality({i \in Indices(y) : y[i] = c})

matthews_corrcoef(y_true, y_pred, lib) ==
    LET cs == SortedSeq(ClassSet(y_true, y_pred))
        n == Len(y_true)
        n_correct == Cardinality({i \in Indices(y_true) : y_true[i] = y_pred[i]})
        tp == SumSeq([k \in 1..Len(cs) |-> CountOf(y_true, cs[k]) * CountOf(y_pred, cs[k])])
        pp == SumSeq([k \in 1..Len(cs) |-> CountOf(y_pred, cs[k]) * CountOf(y_pred, cs[k])])
        tt == SumSeq([k \in 1..Len(cs) |-> CountOf(y_true, cs[k]) * CountOf(y_true, cs[k])])
        cov_ytyp == n_correct * n - tp
        cov_ypyp == n * n - pp
        cov_ytyt == n * n - tt
    IN  IF n = 0 THEN (IF lib = "raise" THEN LibErr ELSE Ok(Zero))
        ELSE IF cov_ypyp * cov_ytyt = 0 THEN Ok(Zero)
        ELSE Ok(Surd(cov_ytyp, cov_ytyt * cov_ypyp))

\* roc_auc_score on a 1-d target and a 1-d score: raises unless the target
\* holds exactly two classes (empty, single-class and multiclass targets
\* all raise) or when there are no scores; the larger class is the positive
\* one; the area is the share of (positive, negative) pairs the score orders
\* correctly, a tie counting one half.
\* probs=None.  An empty score array is the same value: on an empty batch
\* every function that reads the scores raises with either.
NoScores == <<>>

roc_auc_score(y_true, y_score) ==
    LET U == {y_true[i] : i \in Indices(y_true)}
        pos == CHOOSE c \in U : \A x \in U : x <= c
        P == {i \in Indices(y_true) : y_true[i] = pos}
        N == {i \in Indices(y_true) : y_true[i] # pos}
        gt == Cardinality({pr \in P \X N : y_score[pr[1]] > y_score[pr[2]]})
        eq == Cardinality({pr \in P \X N : y_score[pr[1]] = y_score[pr[2]]})
    IN  IF y_score = NoScores \/ Cardinality(U) # 2 THEN LibErr
        ELSE Ok(Rat(2 * gt + eq, 2 * Cardinality(P) * Cardinality(N)))

\* average_precision_score: sum over the distinct thresholds, from the
\* highest score down, of (R_k - R_{k-1}) * P_k; it is reached only after
\* roc_auc_score has accepted the same arguments.
average_precision_score(y_true, y_score) ==
    LET U == {y_true[i] : i \in Indices(y_true)}
        pos == CHOOSE c \in U : \A x \in U : x <= c
        npos == Cardinality({i \in Indices(y_true) : y_true[i] = pos})
        ts == SortedSeq({y_score[i] : i \in Indices(y_score)})
        tpAt(t) == Cardinality({i \in Indices(y_true) : y_score[i] >= t /\ y_true[i] = pos})
        allAt(t) == Cardinality({i \in Indices(y_true) : y_score[i] >= t})
        \* thresholds in descending order: k = Len(ts) first
        prevTp(k) == IF k = Len(ts) THEN 0 ELSE tpAt(ts[k + 1])
        term(k) == RMul(Rat(tpAt(ts[k]) - prevTp(k), npos),
                        Rat(tpAt(ts[k]), allAt(ts[k])))
    IN  IF y_score = NoScores \/ Cardinality(U) # 2 THEN LibErr
        ELSE Ok(RSum([k \in 1..Len(ts) |-> term(k)]))

\* pearsonr(x, y)[0] and spearmanr(x, y)[0] on integer vectors: fewer than
\* two samples raise; a constant vector gives NaN; otherwise
\* cov / sqrt(var_x * var_y).  The rank transform of a two-valued vector
\* is affine, so on such vectors Spearman's coefficient is Pearson's.
Correlation(x, y) ==
    LET n == Len(x)
        sx == SumSeq(x)
        sy == SumSeq(y)
        sxy == SumSeq([i \in 1..n |-> x[i] * y[i]])
        sxx == SumSeq([i \in 1..n |-> x[i] * x[i]])
        syy == SumSeq([i \in 1..n |-> y[i] * y[i]])
        vx == n * sxx - sx * sx
        vy == n * syy - sy * sy
    IN  IF n < 2 THEN LibErr
        ELSE IF vx * vy = 0 THEN Ok(NaN)
        ELSE Ok(Surd(n * sxy - sx * sy, vx * vy))

pearsonr(x, y) == Correlation(x, y)
spearmanr(x, y) == Correlation(x, y)

\* ------------------------------------------------------------ the bundles
\* What a bundle does: the calls it makes, in order, up to the first that
\* raises (trace); the error that call raised, or the mapping it returns.
Bundle(name, calls, mapping) ==
    LET e == FirstErr(calls)
    IN  [err |-> IF e = 0 THEN "none" ELSE calls[e].r.err,
         val |-> IF e = 0 THEN mapping ELSE calls[e].r.val,
         trace |-> (IF name = "" THEN <<>> ELSE <<name>>) \o Made(calls),
         printed |-> <<>>]

Step(name, r) == [name |-> name, r |-> r]

\* mutant: the sum, not halved
HalfSum_NotHalved(a, b) == RAdd(a, b)

\* (a + b) / 2
HalfSum(a, b) == RDivInt(RAdd(a, b), 2)

\* (p + s) / 2 of two correlations; an irrational p is s (see Correlation)
CorrMean(p, s) == IF Len(p) = 3 THEN p ELSE HalfSum(p, s)

accuracy_only(preds, labels) ==
    LET acc == simple_accuracy(preds, labels)
    IN  Bundle("", <<Step("simple_accuracy", Ok(acc))>>, [acc |-> acc])

mcc_only(preds, labels, lib) ==
    LET mcc == matthews_corrcoef(labels, preds, lib)
    IN  Bundle("", <<Step("matthews_corrcoef", mcc)>>,
               [mcc |-> mcc.val])

acc_and_f1(preds, labels, lib) ==
    LET acc == simple_accuracy(preds, labels)
        f1 == f1_score(labels, preds, "binary", lib)
    IN  Bundle("acc_and_f1",
               <<Step("simple_accuracy", Ok(acc)), Step("f1_score", f1)>>,
               [acc |-> acc, f1 |-> f1.val,
                acc_and_f1 |-> HalfSum(acc, f1.val)])

acc_f1_mcc(preds, labels, lib) ==
    LET acc == simple_accuracy(preds, labels)
        f1 == f1_score(labels, preds, "binary", lib)
        mcc == matthews_corrcoef(labels, preds, lib)
    IN  Bundle("acc_f1_mcc",
               <<Step("simple_accuracy", Ok(acc)), Step("f1_score", f1),
                 Step("matthews_corrcoef", mcc)>>,
               [acc |-> acc, f1 |-> f1.val, mcc |-> mcc.val])

acc_f1_mcc_auc_aupr_pre_rec(preds, labels, probs, lib) ==
    LET acc == simple_accuracy(preds, labels)
        precision == precision_score(labels, preds, "binary", lib)
        recall == recall_score(labels, preds, "binary", lib)
        f1 == f1_score(labels, preds, "binary", lib)
        mcc == matthews_corrcoef(labels, preds, lib)
        auc == roc_auc_score(labels, probs)
        aupr == average_precision_score(labels, probs)
    IN  Bundle("acc_f1_mcc_auc_aupr_pre_rec",
               <<Step("simple_accuracy", Ok(acc)),
                 Step("precision_score", precision),
                 Step("recall_score", recall), Step("f1_score", f1),
                 Step("matthews_corrcoef", mcc), Step("roc_auc_score", auc),
                 Step("average_precision_score", aupr)>>,
               [acc |-> acc, f1 |-> f1.val, mcc |-> mcc.val, auc |-> auc.val,
                aupr |-> aupr.val, precision |-> precision.val,
                recall |-> recall.val])

\* mutant: the macro variant returning the bundle with aupr
acc_f1_mcc_auc_pre_rec_WithAupr(preds, labels, probs, lib) ==
    acc_f1_mcc_auc_aupr_pre_rec(preds, labels, probs, lib)

acc_f1_mcc_auc_pre_rec(preds, labels, probs, lib) ==
    LET acc == simple_accuracy(preds, labels)
        precision == precision_score(labels, preds, "macro", lib)
        recall == recall_score(labels, preds, "macro", lib)
        f1 == f1_score(labels, preds, "macro", lib)
        mcc == matthews_corrcoef(labels, preds, lib)
        auc == roc_auc_score(labels, probs)
    IN  Bundle("acc_f1_mcc_auc_pre_rec",
               <<Step("simple_accuracy", Ok(acc)),
                 Step("precision_score", precision),
                 Step("recall_score", recall), Step("f1_score", f1),
                 Step("matthews_corrcoef", mcc), Step("roc_auc_score", auc)>>,
               [acc |-> acc, f1 |-> f1.val, mcc |-> mcc.val, auc |-> auc.val,
                precision |-> precision.val, recall |-> recall.val])

pearson_and_spearman(preds, labels) ==
    LET pearson_corr == pearsonr(preds, labels)
        spearman_corr == spearmanr(preds, labels)
    IN  Bundle("pearson_and_spearman",
               <<Step("pearsonr", pearson_corr), Step("spearmanr", spearman_corr)>>,
               [pearson |-> pearson_corr.val, spearmanr |-> spearman_corr.val,
                corr |-> CorrMean(pearson_corr.val, spearman_corr.val)])

\* ------------------------------------------------- the multi-label bundle
\* mutant: only the value 2 skipped
Sentinel_Only2(t) == t = 2

\* y_true[i][j] == 2 or y_true[i][j] == 3
Sentinel(t) == t = 2 \/ t = 3

\* the confusion-matrix cell sample (t, p) is counted in; "skip" for none
ConfusionCell(t, p) ==
    IF Sentinel(t) THEN "skip"
    ELSE IF t # 0 /\ p # 0 THEN "TP"
    ELSE IF t # 0 /\ ~(p # 0) THEN "FN"
    ELSE IF ~(t # 0) /\ p # 0 THEN "FP"
    ELSE "TN"

\* confusion_matrix[j][key] after the loop over the samples i .. num_batch
RECURSIVE Tally(_, _, _, _, _)
Tally(y_true, y_pred, j, key, i) ==
    IF i > Len(y_true) THEN 0
    ELSE (IF ConfusionCell(y_true[i][j], y_pred[i][j]) = key THEN 1 ELSE 0)
         + Tally(y_true, y_pred, j, key, i + 1)

ConfusionMatrix(y_true, y_pred, j) ==
    [key \in {"TP", "FP", "TN", "FN"} |-> Tally(y_true, y_pred, j, key, 1)]

LabelPrecision(TP, FP, FN) ==
    IF (TP + FP) # 0 THEN Rat(TP, TP + FP)
    ELSE (IF (TP + FN) = 0 THEN One ELSE Zero)

LabelRecall(TP, FN) == IF (TP + FN) # 0 THEN Rat(TP, TP + FN) ELSE One

\* math.isclose(x, 0) with the default tolerances (relative only): x == 0
IsCloseToZero(x) == x = Zero

LabelF1(precision, recall) ==
    IF ~IsCloseToZero(RAdd(precision, recall))
    THEN RDiv(RMul(RMul(Rat(2, 1), precision), recall), RAdd(precision, recall))
    ELSE Zero

\* (TP + TN) / (TP + TN + FP + FN): raises ZeroDivisionError on 0 / 0
LabelAccuracy(TP, FP, TN, FN) ==
    IF TP + TN + FP + FN = 0 THEN Raise("ZeroDivisionError", <<>>)
    ELSE Ok(Rat(TP + TN, TP + TN + FP + FN))

\* print(i, TP, FP, FN, TN, TP+FP, TP+FN, TP+TN), i the Python label index
PrintedLine(i, cm) ==
    <<i, cm["TP"], cm["FP"], cm["FN"], cm["TN"],
      cm["TP"] + cm["FP"], cm["TP"] + cm["FN"], cm["TP"] + cm["TN"]>>

self_acc_f1_pre_rec(y_true, y_pred) ==
    IF Len(y_true) = 0
    THEN [err |-> "IndexError", val |-> <<>>, printed |-> <<>>]
    ELSE
    LET num_labels == Len(y_true[1])
        cm(j) == ConfusionMatrix(y_true, y_pred, j)
        accuracy(j) == LabelAccuracy(cm(j)["TP"], cm(j)["FP"], cm(j)["TN"], cm(j)["FN"])
        precision(j) == LabelPrecision(cm(j)["TP"], cm(j)["FP"], cm(j)["FN"])
        recall(j) == LabelRecall(cm(j)["TP"], cm(j)["FN"])
        bad == {j \in 1..num_labels : accuracy(j).err # "none"}
        stop == IF bad = {} THEN num_labels
                ELSE CHOOSE j \in bad : \A k \in bad : j <= k
    IN  [err |-> IF bad = {} THEN "none" ELSE "ZeroDivisionError",
         val |-> IF bad # {} THEN <<>>
                 ELSE [j \in 1..num_labels |->
                         [precision |-> precision(j),
                          recall |-> recall(j),
                          f1 |-> LabelF1(precision(j), recall(j)),
                          accuracy |-> accuracy(j).val]],
         printed |-> [j \in 1..stop |-> PrintedLine(j - 1, cm(j))]]

\* labels_auc / probs_auc of label position j: the whole column for the
\* first label, the rows whose label is no sentinel for the others
AucRows(labels, j) ==
    IF j = 1 THEN [i \in 1..Len(labels) |-> i]
    ELSE SortedSeq({i \in 1..Len(labels) : ~(labels[i][j] = 2 \/ labels[i][j] = 3)})

AucColumn(m, labels, j) ==
    LET rows == AucRows(labels, j)
    IN  [k \in 1..Len(rows) |-> m[rows[k]][j]]

\* mutant: no try / except around roc_auc_score
TryAuc_NoExcept(y_true, y_score) == roc_auc_score(y_true, y_score)

\* try: auc = roc_auc_score(...)  except: auc = 0.0
TryAuc(y_true, y_score) ==
    LET r == roc_auc_score(y_true, y_score)
    IN  IF r.err # "none" THEN Ok(Zero) ELSE r

\* mutant: label 0 included, range(0, num_labels)
AveragedLabels_All(num_labels) == 1..num_labels

\* the labels that enter ret[num_labels]: range(1, num_labels)
AveragedLabels(num_labels) == 2..num_labels

\* sum([ret[i][k] for i in range(1, num_labels)]) / (num_labels - 1)
LabelAverage(values, num_labels) ==
    LET idx == SortedSeq(AveragedLabels(num_labels))
    IN  RDivInt(RSum([k \in 1..Len(idx) |-> values[idx[k]]]), num_labels - 1)

acc_f1_mcc_auc_pre_rec_forMultiLabel(preds, labels, probs) ==
    LET tmp == self_acc_f1_pre_rec(labels, preds)
        num_labels == Len(preds[1])
        auc == [j \in 1..num_labels |->
                  TryAuc(AucColumn(labels, labels, j), AucColumn(probs, labels, j))]
        aucBad == {j \in 1..num_labels : auc[j].err # "none"}
        per == [acc |-> [j \in 1..num_labels |-> tmp.val[j].accuracy],
                auc |-> [j \in 1..num_labels |-> auc[j].val],
                f1 |-> [j \in 1..num_labels |-> tmp.val[j].f1],
                precision |-> [j \in 1..num_labels |-> tmp.val[j].precision],
                recall |-> [j \in 1..num_labels |-> tmp.val[j].recall]]
        name == "acc_f1_mcc_auc_pre_rec_forMultiLabel"
        out(e, v, t) == [err |-> e, val |-> v, trace |-> <<name>> \o t,
                         printed |-> tmp.printed]
    IN  IF tmp.err # "none" THEN out(tmp.err, <<>>, <<"self_acc_f1_pre_rec">>)
        ELSE IF probs = NoScores
        THEN out("IndexError", <<>>, <<"self_acc_f1_pre_rec">>)
        ELSE IF aucBad # {}
        THEN LET j == CHOOSE x \in aucBad : \A y \in aucBad : x <= y
             IN  out(auc[j].err, <<>>,
                     <<"self_acc_f1_pre_rec">> \o [k \in 1..j |-> "roc_auc_score"])
        ELSE LET t == <<"self_acc_f1_pre_rec">> \o [k \in 1..num_labels |-> "roc_auc_score"]
             IN  IF num_labels - 1 = 0 THEN out("ZeroDivisionError", <<>>, t)
                 ELSE out("none",
                          <<per, [k \in DOMAIN per |-> LabelAverage(per[k], num_labels)]>>,
                          t)

\* --------------------------------------------------------- the dispatchers
GlueTasks ==
    {"cola", "sst-2", "dna690", "dnapair", "dnaprom", "dnasingleenhancer",
     "dnasplice", "mrpc", "sts-b", "qqp", "mnli", "mnli-mm", "qnli", "rte",
     "wnli", "hans", "dnaenhancer"}

KeyError(task_name) ==
    [err |-> "KeyError", val |-> task_name, trace |-> <<>>, printed |-> <<>>]

\* the if / elif chain of glue_compute_metrics, after its assertion
GlueDispatch(task_name, preds, labels, probs, lib) ==
    IF task_name = "cola" THEN mcc_only(preds, labels, lib)
    ELSE IF task_name = "sst-2" THEN accuracy_only(preds, labels)
    ELSE IF task_name \in {"dna690", "dnapair"}
    THEN acc_f1_mcc_auc_aupr_pre_rec(preds, labels, probs, lib)
    ELSE IF task_name = "dnaprom" \/ task_name = "dnasingleenhancer"
    THEN acc_f1_mcc_auc_pre_rec(preds, labels, probs, lib)
    ELSE IF task_name = "dnasplice"
    THEN acc_f1_mcc_auc_pre_rec(preds, labels, probs, lib)
    ELSE IF task_name = "mrpc" THEN acc_and_f1(preds, labels, lib)
    ELSE IF task_name = "sts-b" THEN pearson_and_spearman(preds, labels)
    ELSE IF task_name = "qqp" THEN acc_and_f1(preds, labels, lib)
    ELSE IF task_name = "mnli" THEN accuracy_only(preds, labels)
    ELSE IF task_name = "mnli-mm" THEN accuracy_only(preds, labels)
    ELSE IF task_name = "qnli" THEN accuracy_only(preds, labels)
    ELSE IF task_name = "rte" THEN accuracy_only(preds, labels)
    ELSE IF task_name = "wnli" THEN accuracy_only(preds, labels)
    ELSE IF task_name = "hans" THEN accuracy_only(preds, labels)
    ELSE IF task_name = "dnaenhancer"
    THEN acc_f1_mcc_auc_pre_rec_forMultiLabel(preds, labels, probs)
    ELSE KeyError(task_name)

AssertionError ==
    [err |-> "AssertionError", val |-> <<>>, trace |-> <<"assert">>,
     printed |-> <<>>]

\* mutant: the task name looked up before the lengths are compared
glue_compute_metrics_LookupFirst(task_name, preds, labels, probs, lib) ==
    IF task_name \notin GlueTasks
    THEN [KeyError(task_name) EXCEPT !.trace = <<"dispatch">>]
    ELSE IF ~(Len(preds) = Len(labels))
    THEN [AssertionError EXCEPT !.trace = <<"dispatch", "assert">>]
    ELSE LET b == GlueDispatch(task_name, preds, labels, probs, lib)
         IN  [b EXCEPT !.trace = <<"dispatch", "assert">> \o @]

glue_compute_metrics(task_name, preds, labels, probs, lib) ==
    IF ~(Len(preds) = Len(labels)) THEN AssertionError
    ELSE LET b == GlueDispatch(task_name, preds, labels, probs, lib)
         IN  [b EXCEPT !.trace = <<"assert", "dispatch">> \o @]

\* mutant: every task name served as "xnli"
XnliDispatch_AnyTask(task_name, preds, labels) == accuracy_only(preds, labels)

XnliDispatch(task_name, preds, labels) ==
    IF task_name = "xnli" THEN accuracy_only(preds, labels)
    ELSE KeyError(task_name)

xnli_compute_metrics(task_name, preds, labels) ==
    IF ~(Len(preds) = Len(labels)) THEN AssertionError
    ELSE LET b == XnliDispatch(task_name, preds, labels)
         IN  [b EXCEPT !.trace = <<"assert", "dispatch">> \o @]

\* ------------------------------------------------------------------ inputs
Classes == {0, 1}              \* binary class labels
LabelCodes == {0, 1, 2, 3}     \* multi-label ground truth; 2, 3: sentinels
ScoreLevels == {0, 1}

Vectors(V) == UNION {[1..n -> V] : n \in 0..MaxLen}

\* N x L matrices with at most MaxCells cells, and the empty batch
Shapes == {sh \in (1..MaxCells) \X (1..MaxCells) : sh[1] * sh[2] <= MaxCells}
Matrices(V) == {<<>>} \cup UNION {[1..sh[1] -> [1..sh[2] -> V]] : sh \in Shapes}

\* the score matrices tried with a prediction matrix: none (probs=None),
\* and the predictions themselves as scores
ProbModes == {"none", "hard"}
ScoresFor(mode, preds) == IF mode = "none" THEN NoScores ELSE preds

\* the score vectors tried with a prediction vector: none (probs=None) and
\* every vector of levels; with labels of another length, none and one vector
ScoreVectors(preds, labels) ==
    IF Len(preds) = Len(labels)
    THEN {NoScores} \cup [1..Len(preds) -> ScoreLevels]
    ELSE {NoScores, [i \in 1..Len(preds) |-> 0]}

UnknownTasks == {"xnli", "not-a-task"}
XnliTasks == {"xnli", "mnli", "not-a-task"}
DirectFns == {"simple_accuracy", "acc_and_f1", "acc_f1_mcc"}

\* the library's behaviour on empty vectors matters on empty vectors only
LibModes(preds, labels) ==
    IF Len(preds) = 0 /\ Len(labels) = 0 THEN {"raise", "zero"} ELSE {"zero"}

\* ------------------------------------------------------------------- state
VARIABLES
    pc,        \* "idle", or "done" after a call has returned or raised
    call,      \* the call made: fn, task_name, preds, labels, probs, lib
    err,       \* "none" when the call returned, else the exception raised
    result,    \* the value returned, or the exception's argument
    trace,     \* the checks and functions the call ran, in order
    printed    \* the lines the call printed

vars == <<pc, call, err, result, trace, printed>>

NoCall == [fn |-> "", task_name |-> "", preds |-> <<>>, labels |-> <<>>,
           probs |-> <<>>, lib |-> "zero"]

Init ==
    /\ pc = "idle"
    /\ call = NoCall
    /\ err = "none"
    /\ result = <<>>
    /\ trace = <<>>
    /\ printed = <<>>

Finish(c, out) ==
    /\ pc' = "done"
    /\ call' = c
    /\ err' = out.err
    /\ result' = out.val
    /\ trace' = out.trace
    /\ printed' = out.printed

\* glue_compute_metrics(task_name, preds, labels, probs) on class vectors
CallGlue ==
    /\ pc = "idle"
    /\ \E task_name \in (GlueTasks \ {"dnaenhancer"}) \cup UnknownTasks,
          preds \in Vectors(Classes), labels \in Vectors(Classes) :
         \E probs \in ScoreVectors(preds, labels),
            lib \in LibModes(preds, labels) :
            Finish([fn |-> "glue_compute_metrics", task_name |-> task_name,
                    preds |-> preds, labels |-> labels, probs |-> probs,
                    lib |-> lib],
                   glue_compute_metrics(task_name, preds, labels, probs, lib))

\* glue_compute_metrics("dnaenhancer", ...) on N x L matrices
CallGlueMultiLabel ==
    /\ pc = "idle"
    /\ \E preds \in Matrices(Classes), mode \in ProbModes :
         \E labels \in {m \in Matrices(LabelCodes) :
                          /\ Len(m) = Len(preds)
                          /\ Len(m) > 0 => Len(m[1]) = Len(preds[1])} :
            Finish([fn |-> "glue_compute_metrics", task_name |-> "dnaenhancer",
                    preds |-> preds, labels |-> labels,
                    probs |-> ScoresFor(mode, preds), lib |-> "zero"],
                   glue_compute_metrics("dnaenhancer", preds, labels,
                                        ScoresFor(mode, preds), "zero"))

\* xnli_compute_metrics(task_name, preds, labels)
CallXnli ==
    /\ pc = "idle"
    /\ \E task_name \in XnliTasks,
          preds \in Vectors(Classes), labels \in Vectors(Classes) :
            Finish([fn |-> "xnli_compute_metrics", task_name |-> task_name,
                    preds |-> preds, labels |-> labels, probs |-> NoScores,
                    lib |-> "zero"],
                   xnli_compute_metrics(task_name, preds, labels))

\* a bundle called directly, on vectors of one length
DirectCall(fn, preds, labels, lib) ==
    IF fn = "simple_accuracy"
    THEN [err |-> "none", val |-> simple_accuracy(preds, labels),
          trace |-> <<"simple_accuracy">>, printed |-> <<>>]
    ELSE IF fn = "acc_and_f1" THEN acc_and_f1(preds, labels, lib)
    ELSE acc_f1_mcc(preds, labels, lib)

CallBundle ==
    /\ pc = "idle"
    /\ \E fn \in DirectFns, preds \in Vectors(Classes) :
         \E labels \in [1..Len(preds) -> Classes],
            lib \in (IF fn = "simple_accuracy" THEN {"zero"}
                     ELSE LibModes(preds, preds)) :
            Finish([fn |-> fn, task_name |-> "", preds |-> preds,
                    labels |-> labels, probs |-> NoScores, lib |-> lib],
                   DirectCall(fn, preds, labels, lib))

\* the caller takes the outcome; the module keeps no state between calls
Return ==
    /\ pc = "done"
    /\ pc' = "idle"
    /\ call' = NoCall
    /\ err' = "none"
    /\ result' = <<>>
    /\ trace' = <<>>
    /\ printed' = <<>>

Next == CallGlue \/ CallGlueMultiLabel \/ CallXnli \/ CallBundle \/ Return

Spec == Init /\ [][Next]_vars

\* ================================================================= claims
Done == pc = "done"
ViaDispatcher == call.fn \in {"glue_compute_metrics", "xnli_compute_metrics"}
OnVectors == call.task_name # "dnaenhancer"
MetricFunctions ==
    {"simple_accuracy", "f1_score", "precision_score", "recall_score",
     "matthews_corrcoef", "roc_auc_score", "average_precision_score",
     "pearsonr", "spearmanr", "self_acc_f1_pre_rec"}
Ran(names) == \E k \in 1..Len(trace) : trace[k] \in names

\* C1: a dispatcher called with len(preds) # len(labels), whatever the task
\* name, raises the assertion error and returns nothing; the assertion is
\* all it ran: no task-name lookup and no metric function came before it.
C1_MismatchFailsAssertion ==
    (Done /\ ViaDispatcher /\ Len(call.preds) # Len(call.labels))
        => /\ err = "AssertionError"
           /\ trace = <<"assert">>
           /\ ~Ran(MetricFunctions \cup {"dispatch"})

\* C1 witness: glue_compute_metrics with an unrecognised task name, 3
\* predictions and 2 labels has raised the assertion error.
C1_Witness ==
    /\ Done
    /\ call.fn = "glue_compute_metrics"
    /\ call.task_name = "not-a-task"
    /\ Len(call.preds) = 3
    /\ Len(call.labels) = 2
    /\ err = "AssertionError"

UnknownTo(fn, task_name) ==
    IF fn = "glue_compute_metrics" THEN task_name \notin GlueTasks
    ELSE task_name # "xnli"

\* C2: a dispatcher called with equal-length inputs and a task name outside
\* its table raises KeyError carrying that name; it returns nothing and no
\* metric function runs.
C2_UnknownTaskKeyError ==
    (Done /\ ViaDispatcher /\ OnVectors
          /\ Len(call.preds) = Len(call.labels)
          /\ UnknownTo(call.fn, call.task_name))
        => /\ err = "KeyError"
           /\ result = call.task_name
           /\ ~Ran(MetricFunctions)

\* C2 witness: xnli_compute_metrics with the task name "mnli" (a GLUE task,
\* unknown to this dispatcher) and two predictions and labels raised KeyError.
C2_Witness ==
    /\ Done
    /\ call.fn = "xnli_compute_metrics"
    /\ call.task_name = "mnli"
    /\ Len(call.preds) = 2
    /\ Len(call.labels) = 2
    /\ err = "KeyError"
    /\ result = "mnli"

Matches(preds, labels) ==
    Cardinality({i \in 1..Len(preds) : preds[i] = labels[i]})

\* x is the number m / n, n > 0
IsRatio(x, m, n) == ~IsNaN(x) /\ x[1] * n = m * x[2]
InUnitInterval(x) == ~IsNaN(x) /\ 0 <= x[1] /\ x[1] <= x[2]

\* C3 as stated: on equal-length binary arrays of any length N,
\* simple_accuracy returns (number of matching indices) / N, a value in [0, 1].
C3_Original ==
    (Done /\ call.fn = "simple_accuracy")
        => /\ IsRatio(result, Matches(call.preds, call.labels), Len(call.preds))
           /\ InUnitInterval(result)

\* C3 amended: on equal-length binary arrays of length N >= 1,
\* simple_accuracy returns (number of matching indices) / N, a value in
\* [0, 1]; on empty arrays (N = 0) it returns NaN.
C3_AccuracyIsMatchFraction ==
    (Done /\ call.fn = "simple_accuracy")
        => IF Len(call.preds) >= 1
           THEN /\ IsRatio(result, Matches(call.preds, call.labels), Len(call.preds))
                /\ InUnitInterval(result)
           ELSE IsNaN(result)

\* C3 witness: simple_accuracy on three predictions of which exactly two
\* match has returned 2/3.
C3_Witness ==
    /\ Done
    /\ call.fn = "simple_accuracy"
    /\ Len(call.preds) = 3
    /\ Matches(call.preds, call.labels) = 2
    /\ result = <<2, 3>>

\* the fields of a returned mapping besides the constituent metrics
MeanFields(m) == DOMAIN m \ {"acc", "f1", "mcc"}
\* x is the arithmetic mean of a and b
IsMeanOf(x, a, b) == RAdd(x, x) = RAdd(a, b)

\* C4 as stated: the mappings acc_and_f1 and acc_f1_mcc return each hold a
\* mean field, equal to the arithmetic mean of the constituent metrics.
C4_Original ==
    (Done /\ call.fn \in {"acc_and_f1", "acc_f1_mcc"} /\ err = "none")
        => /\ MeanFields(result) # {}
           /\ \A k \in MeanFields(result) :
                IsMeanOf(result[k], result.acc, result.f1)

ReturnsAccAndF1 ==
    \/ call.fn = "acc_and_f1"
    \/ call.fn = "glue_compute_metrics" /\ call.task_name \in {"mrpc", "qqp"}

\* C4 amended: the mapping acc_and_f1 returns (directly, and for the tasks
\* mrpc and qqp) holds acc, f1 and acc_and_f1 with acc_and_f1 == (acc + f1) / 2;
\* the mapping acc_f1_mcc returns holds acc, f1 and mcc only, no mean field.
C4_MeanFieldOfAccAndF1 ==
    /\ (Done /\ ReturnsAccAndF1 /\ err = "none")
          => /\ DOMAIN result = {"acc", "f1", "acc_and_f1"}
             /\ IsMeanOf(result.acc_and_f1, result.acc, result.f1)
    /\ (Done /\ call.fn = "acc_f1_mcc" /\ err = "none")
          => DOMAIN result = {"acc", "f1", "mcc"}

\* C4 witness: the task mrpc on three samples has returned acc = 2/3,
\* f1 = 4/5 and acc_and_f1 = 11/15.
C4_Witness ==
    /\ Done
    /\ call.fn = "glue_compute_metrics"
    /\ call.task_name = "mrpc"
    /\ err = "none"
    /\ Len(call.preds) = 3
    /\ result.acc = <<2, 3>>
    /\ result.f1 = <<4, 5>>
    /\ result.acc_and_f1 = <<11, 15>>

ReturnsMcc ==
    \/ call.fn = "acc_f1_mcc"
    \/ /\ call.fn = "glue_compute_metrics"
       /\ call.task_name \in {"cola", "dna690", "dnapair", "dnaprom",
                              "dnasingleenhancer", "dnasplice"}
ReturnsAcc ==
    \/ call.fn \in {"acc_and_f1", "acc_f1_mcc"}
    \/ /\ call.fn = "glue_compute_metrics"
       /\ call.task_name \in GlueTasks \ {"cola", "sts-b", "dnaenhancer"}
    \/ /\ call.fn = "xnli_compute_metrics"
       /\ call.task_name = "xnli"

PerfectAgreement ==
    /\ Done /\ OnVectors /\ err = "none"
    /\ Len(call.preds) = Len(call.labels)
    /\ \A i \in 1..Len(call.preds) : call.preds[i] = call.labels[i]

BothClasses(labels) == \E i, k \in 1..Len(labels) : labels[i] # labels[k]

\* C5 as stated, on the arrays that are not empty: whenever preds == labels
\* element for element, simple_accuracy is 1.0 and the Matthews correlation
\* is 1.0.
C5_Original ==
    (PerfectAgreement /\ Len(call.preds) >= 1)
        => /\ (call.fn = "simple_accuracy") => (result = One)
           /\ ReturnsAcc => (result.acc = One)
           /\ ReturnsMcc => (result.mcc = One)

\* C5 amended: whenever preds == labels element for element and the arrays
\* are not empty, simple_accuracy is 1.0; the Matthews correlation is 1.0
\* when both classes occur in the arrays and 0.0 when only one class does.
C5_PerfectAgreement ==
    (PerfectAgreement /\ Len(call.preds) >= 1)
        => /\ (call.fn = "simple_accuracy") => (result = One)
           /\ ReturnsAcc => (result.acc = One)
           /\ ReturnsMcc
                => (result.mcc = (IF BothClasses(call.labels) THEN One ELSE Zero))

\* C5 witness: the task cola on preds == labels holding both classes has
\* returned mcc = 1.
C5_Witness ==
    /\ PerfectAgreement
    /\ call.fn = "glue_compute_metrics"
    /\ call.task_name = "cola"
    /\ BothClasses(call.labels)
    /\ result.mcc = One

\* ------------------------------------------ claims on the multi-label bundle
MultiLabelCall ==
    /\ Done
    /\ call.fn = "glue_compute_metrics"
    /\ call.task_name = "dnaenhancer"
    /\ Len(call.preds) >= 1

NumBatch == Len(call.labels)
NumLabels == Len(call.labels[1])
MetricNames == {"acc", "auc", "f1", "precision", "recall"}

\* the samples scored for label position j: ground truth neither 2 nor 3
Scored(j) == {i \in 1..NumBatch : call.labels[i][j] \notin {2, 3}}
AllSentinel(j) == Scored(j) = {}

CountTP(j) == Cardinality({i \in Scored(j) : call.labels[i][j] = 1 /\ call.preds[i][j] = 1})
CountFP(j) == Cardinality({i \in Scored(j) : call.labels[i][j] = 0 /\ call.preds[i][j] = 1})
CountTN(j) == Cardinality({i \in Scored(j) : call.labels[i][j] = 0 /\ call.preds[i][j] = 0})
CountFN(j) == Cardinality({i \in Scored(j) : call.labels[i][j] = 1 /\ call.preds[i][j] = 0})

\* the counts the bundle printed for label position j: (TP, FP, FN, TN)
PrintedFor(j) == j \in 1..Len(printed)
PrintedCounts(j) == <<printed[j][2], printed[j][3], printed[j][4], printed[j][5]>>

\* the edge-case policy, on the counts of label position j
PolicyPrecision(j) ==
    IF CountTP(j) + CountFP(j) # 0 THEN Rat(CountTP(j), CountTP(j) + CountFP(j))
    ELSE IF CountTP(j) + CountFN(j) = 0 THEN <<1, 1>> ELSE <<0, 1>>
PolicyRecall(j) ==
    IF CountTP(j) + CountFN(j) # 0 THEN Rat(CountTP(j), CountTP(j) + CountFN(j))
    ELSE <<1, 1>>
PolicyF1(j) ==
    LET p == PolicyPrecision(j)
        r == PolicyRecall(j)
    IN  IF p[1] = 0 /\ r[1] = 0 THEN <<0, 1>>
        ELSE Rat(2 * p[1] * r[1], p[1] * r[2] + r[1] * p[2])
PolicyAccuracy(j) ==
    Rat(CountTP(j) + CountTN(j), Cardinality(Scored(j)))

\* C6 as stated: when some label column holds only the ground-truth values
\* 2 and 3, its counts TP, FP, TN, FN are all zero and the bundle yields
\* recall 1 and precision 1.0 for that label.
C6_AllSentinelColumn ==
    MultiLabelCall
        => \A j \in 1..NumLabels :
             AllSentinel(j)
                => /\ PrintedFor(j) => (PrintedCounts(j) = <<0, 0, 0, 0>>)
                   /\ err = "none"
                   /\ result[1].recall[j] = One
                   /\ result[1].precision[j] = One

\* C7: whenever the multi-label bundle returns, every field of the
\* aggregate mapping is the mean of entries 1 .. L-1 (entry 0 left out) of
\* the per-label array of the same name; each per-label array has exactly L
\* entries, entry j being label j's metric, and holds no aggregate.
C7_AggregateIsMeanOfLabels1ToL ==
    (MultiLabelCall /\ err = "none")
        => /\ DOMAIN result[1] = MetricNames
           /\ DOMAIN result[2] = MetricNames
           /\ \A k \in MetricNames :
                /\ Len(result[1][k]) = NumLabels
                /\ RMul(result[2][k], Rat(NumLabels - 1, 1))
                     = RSum(SubSeq(result[1][k], 2, NumLabels))
           /\ \A j \in 1..NumLabels :
                /\ result[1].acc[j] = PolicyAccuracy(j)
                /\ result[1].precision[j] = PolicyPrecision(j)
                /\ result[1].recall[j] = PolicyRecall(j)

\* C7 witness: a call with three labels has returned accuracies that differ
\* between labels 1 and 2 and an aggregate accuracy that differs from
\* label 0's.
C7_Witness ==
    /\ MultiLabelCall
    /\ err = "none"
    /\ NumLabels = 3
    /\ result[1].acc[2] # result[1].acc[3]
    /\ result[1].acc[1] # result[2].acc

\* the column roc_auc_score is given for label position j (unfiltered for
\* the first label) is degenerate: it does not hold exactly two classes
AucSamples(j) == IF j = 1 THEN 1..NumBatch ELSE Scored(j)
Degenerate(j) == Cardinality({call.labels[i][j] : i \in AucSamples(j)}) # 2

\* C8: when the AUC computation fails for a label (its column is
\* degenerate), the failure is not propagated: the call does not end in the
\* library's error, and when it returns, that label's auc is 0.0, its acc,
\* f1, precision and recall are those of its confusion matrix, and every
\* other label's metrics are those of an undisturbed run.
C8_AucFailureSwallowed ==
    (MultiLabelCall /\ call.probs # NoScores /\ \E j \in 1..NumLabels : Degenerate(j))
        => /\ err # "LibraryError"
           /\ (\A j \in 1..NumLabels : ~AllSentinel(j)) => Ran({"roc_auc_score"})
           /\ (err = "none")
                => \A j \in 1..NumLabels :
                     /\ Degenerate(j) => (result[1].auc[j] = Zero)
                     /\ ~Degenerate(j) =>
                          (result[1].auc[j]
                             = roc_auc_score(AucColumn(call.labels, call.labels, j),
                                             AucColumn(call.probs, call.labels, j)).val)
                     /\ result[1].acc[j] = PolicyAccuracy(j)
                     /\ result[1].precision[j] = PolicyPrecision(j)
                     /\ result[1].recall[j] = PolicyRecall(j)
                     /\ result[1].f1[j] = PolicyF1(j)

\* C8 witness: a returned call in which label 0's column is single-class
\* (auc 0.0) while label 1's auc was computed and is 1.
C8_Witness ==
    /\ MultiLabelCall
    /\ err = "none"
    /\ NumLabels = 2
    /\ Degenerate(1)
    /\ ~Degenerate(2)
    /\ result[1].auc[1] = Zero
    /\ result[1].auc[2] = One

ExpectedKeys(task_name) ==
    IF task_name = "cola" THEN {"mcc"}
    ELSE IF task_name \in {"sst-2", "mnli", "mnli-mm", "qnli", "rte", "wnli", "hans"}
    THEN {"acc"}
    ELSE IF task_name \in {"mrpc", "qqp"} THEN {"acc", "f1", "acc_and_f1"}
    ELSE IF task_name = "sts-b" THEN {"pearson", "spearmanr", "corr"}
    ELSE IF task_name \in {"dna690", "dnapair"}
    THEN {"acc", "precision", "recall", "f1", "mcc", "auc", "aupr"}
    ELSE {"acc", "precision", "recall", "f1", "mcc", "auc"}

\* C9: glue_compute_metrics called with a recognised task name and
\* equal-length inputs never raises the assertion or the key error, and
\* what it returns is the bundle of the task: mcc alone for cola; acc alone
\* for sst-2, mnli, mnli-mm, qnli, rte, wnli, hans; acc, f1, acc_and_f1 for
\* mrpc, qqp; pearson, spearmanr, corr for sts-b; acc, precision, recall, f1,
\* mcc, auc for the five probability tasks, with aupr for dna690 and dnapair
\* only; the per-label and averaged acc, auc, f1, precision, recall for
\* dnaenhancer.
C9_DispatchTable ==
    (Done /\ call.fn = "glue_compute_metrics" /\ call.task_name \in GlueTasks
          /\ Len(call.preds) = Len(call.labels))
        => /\ err \notin {"AssertionError", "KeyError"}
           /\ (err = "none" /\ call.task_name # "dnaenhancer")
                => (DOMAIN result = ExpectedKeys(call.task_name))
           /\ (err = "none" /\ call.task_name = "dnaenhancer")
                => /\ DOMAIN result[1] = MetricNames
                   /\ DOMAIN result[2] = MetricNames

\* C9 witness: the task dnaprom has returned a mapping without aupr.
C9_Witness ==
    /\ Done
    /\ call.fn = "glue_compute_metrics"
    /\ call.task_name = "dnaprom"
    /\ err = "none"
    /\ Len(call.preds) = 3
    /\ "aupr" \notin DOMAIN result
    /\ "auc" \in DOMAIN result

\* C10: for every label column j the printed counts TP, FP, TN, FN are
\* those of the samples whose ground truth in column j is neither 2 nor 3,
\* each counted in exactly one cell, and the returned per-label metrics
\* follow the policy: precision = TP/(TP+FP), or 1.0 / 0.0 as TP+FN is zero
\* or not when TP+FP = 0; recall = TP/(TP+FN), or 1 when TP+FN = 0;
\* F1 = 2*precision*recall/(precision+recall), or 0.0 when that sum is zero.
C10_ConfusionCountsAndPolicy ==
    MultiLabelCall
        => /\ \A j \in 1..NumLabels :
                PrintedFor(j)
                  => /\ PrintedCounts(j) = <<CountTP(j), CountFP(j), CountFN(j), CountTN(j)>>
                     /\ printed[j][2] + printed[j][3] + printed[j][4] + printed[j][5]
                          = Cardinality(Scored(j))
           /\ (err = "none")
                => \A j \in 1..NumLabels :
                     /\ PrintedFor(j)
                     /\ result[1].precision[j] = PolicyPrecision(j)
                     /\ result[1].recall[j] = PolicyRecall(j)
                     /\ result[1].f1[j] = PolicyF1(j)

\* C10 witness: a returned call with a label column that holds a sentinel
\* sample beside a missed positive: precision, recall and F1 are all 0.
C10_Witness ==
    /\ MultiLabelCall
    /\ err = "none"
    /\ \E j \in 1..NumLabels :
         /\ Scored(j) # 1..NumBatch
         /\ CountFN(j) = 1
         /\ CountTP(j) + CountFP(j) = 0
         /\ result[1].precision[j] = Zero
         /\ result[1].recall[j] = Zero
         /\ result[1].f1[j] = Zero

====
